---- MODULE Spec2Model ----
(***************************************************************************)
(* bowtie-inspect (src/bowtie_inspect.cpp): reconstruction of the          *)
(* reference sequences of an index from its joined text, the name-only     *)
(* listing, the FASTA line wrapping, and the command line.                 *)
(*                                                                         *)
(* Text is modelled as sequences of one-character strings; a line of the   *)
(* output stream is such a sequence, and fout is the sequence of lines     *)
(* written so far.                                                         *)
(***************************************************************************)
EXTENDS Integers, Sequences, FiniteSets, TLC

VARIABLES
    names_only,     \* static int names_only (line 21)
    across,         \* static int across (line 22)
    refnames,       \* ebwt.refnames(): the labels, indexed by record id
    plen,           \* declared total length of each record
    orig_len,       \* seqan::length(cat_ref)
    joined,         \* the oracle's answer and the character of each position visited
    i,              \* loop index of the running loop
    curr_ref,       \* uint32_t curr_ref
    curr_ref_seq,   \* string curr_ref_seq
    last_text_off,  \* uint32_t last_text_off
    tlen,           \* uint32_t tlen
    fout,           \* lines written to the output stream
    pc,             \* position of the process
    argv,           \* the command line after argv[0]
    optind,         \* next element of argv getopt_long examines
    verbose,        \* static int verbose (line 20)
    cerr,           \* lines written to the error stream
    status,         \* exit status of the process, Running until it ends
    loaded          \* the index has been read (lines 210-211)

vars == <<names_only, across, refnames, plen, orig_len, joined, i, curr_ref,
          curr_ref_seq, last_text_off, tlen, fout, pc,
          argv, optind, verbose, cerr, status, loaded>>

----------------------------------------------------------------------------
(* Bounds *)

MaxRefs == 2        \* entries of the Records collection
MaxLen == 3         \* declared length of a record
MaxJoined == 3      \* positions of the joined sequence
MaxAcross == 3      \* wrap widths handed to print_fasta_record alone
MaxSeq == 4         \* length of a sequence handed to print_fasta_record alone
MaxOverrun == 1     \* elements read past the end of refnames before the run is cut
MaxArgs == 3        \* elements of the command line

----------------------------------------------------------------------------
(* Program constants *)

\* 0xffffffff. TLC's integers are 32-bit signed, so the all-ones word is
\* modelled by the largest value TLC has; every other unsigned quantity of
\* the model is far below it and no subtraction of the model wraps.
NoRef == 2147483647

\* size_t(0) - 1, modelled by the same largest value.
SizeMax == 2147483647

\* static int across = 60
DefaultAcross == 60

\* status of a process that has not ended
Running == -1

Dna == <<"A", "C", "G", "T">>

LabelPool == <<"r0", "r1", "r2", "r3">>

----------------------------------------------------------------------------
(* Strings *)

\* string(n, 'N')
Ns(n) == [k \in 1..n |-> "N"]

\* getValue(cat_ref, p): the joined text holds only real Dna characters
getValue(p) == Dna[(p % 4) + 1]

----------------------------------------------------------------------------
(* print_fasta_record *)

FastaTailAlways(seq, k) == <<SubSeq(seq, k + 1, Len(seq))>>

\* if (i < seq.length()) fout << seq.substr(i) << endl;
FastaTail(seq, k) ==
    IF k < Len(seq) THEN <<SubSeq(seq, k + 1, Len(seq))>> ELSE <<>>

\* i + across in size_t: a negative across wraps to a value near the largest
SizeAdd(k, acr) == IF k + acr < 0 THEN (SizeMax + (k + acr)) + 1 ELSE k + acr

\* With across = 0 the loop of lines 121-125 never advances: it writes empty
\* lines for ever as soon as the sequence is not empty.
FastaHangs(seq, acr) == acr = 0 /\ Len(seq) > 0

\* while (i + across < seq.length()) { fout << seq.substr(i, across); i += across; }
RECURSIVE FastaLoop(_, _, _)
FastaLoop(seq, acr, k) ==
    IF SizeAdd(k, acr) < Len(seq)
    THEN <<SubSeq(seq, k + 1, k + acr)>> \o FastaLoop(seq, acr, k + acr)
    ELSE FastaTail(seq, k)

print_fasta_record(out, defline, seq, acr) ==
    out \o << <<">", defline>> >> \o FastaLoop(seq, acr, 0)

\* what a call that never returns has written when it is observed: the
\* header line and the first of its empty lines
HungOutput(defline) == << <<">", defline>>, <<>> >>

----------------------------------------------------------------------------
(* The mapping oracle, ebwt.joinedToTextOff(1, i, tidx, textoff, tlen, true) *)

NumRefs == Len(refnames)

\* offsets of record r reported as owned so far
OwnedOffsets(r) ==
    { joined[p].textoff : p \in { q \in 1..Len(joined) :
          joined[q].tidx = r /\ joined[q].textoff < joined[q].tlen } }

\* Answers the oracle may give at the next position. An owned answer names a
\* record, an offset below its declared length (I1) that is above every
\* offset of that record reported before (I2, one position per offset), and
\* the record's declared length. An unowned answer is either the record-id
\* sentinel, reported with length 0, or a record with the offset at its
\* declared length. (An answer that leaves tlen at 0xffffffff makes the pad
\* after the loop a string of 4 GiB; such answers are not drawn.)
OracleAnswers ==
    { [tidx |-> r, textoff |-> o, tlen |-> plen[r + 1]] :
        r \in 0..(NumRefs - 1), o \in 0..MaxLen }
    \cup { [tidx |-> NoRef, textoff |-> NoRef, tlen |-> 0] }

OracleAllowed(a) ==
    \/ a.tidx = NoRef
    \/ /\ a.tidx # NoRef
       /\ a.textoff <= a.tlen
       /\ \A o \in OwnedOffsets(a.tidx) : o < a.textoff

----------------------------------------------------------------------------
(* print_index_sequences *)

OwnedAnyOffset(tidx, textoff, tl) == tidx # NoRef

\* if (tidx != 0xffffffff && textoff < tlen)
Owned(tidx, textoff, tl) == tidx # NoRef /\ textoff < tl

NeedSwitchAlways(curr, tidx) == TRUE

\* if (curr_ref != tidx)
NeedSwitch(curr, tidx) == curr # tidx

\* if (curr_ref_seq.length() < tlen) curr_ref_seq += string(tlen - length, 'N');
ClosePad(seq, tl) ==
    IF Len(seq) < tl THEN seq \o Ns(tl - Len(seq)) ELSE seq

EmitBefore(out, names, curr, seq, tl, acr) ==
    print_fasta_record(<<>>, names[curr + 1], ClosePad(seq, tl), acr) \o out

CloseRecordPartial(out, names, curr, seq, tl, acr) ==
    print_fasta_record(out, names[curr + 1],
                       SubSeq(seq, 1, Len(seq) - 1), acr)

\* pad, then print_fasta_record(fout, (*refnames)[curr_ref], curr_ref_seq)
CloseRecord(out, names, curr, seq, tl, acr) ==
    print_fasta_record(out, names[curr + 1], ClosePad(seq, tl), acr)

\* if (textoff - last_text_off > 1)
\*     curr_ref_seq += string(textoff - last_text_off - (last_text_off ? 1 : 0), 'N');
GapFill(seq, textoff, last) ==
    IF textoff - last > 1
    THEN seq \o Ns(textoff - last - (IF last # 0 THEN 1 ELSE 0))
    ELSE seq

FinalOpenButLast(curr, names) == curr < Len(names) - 1

\* if (curr_ref < refnames->size())
FinalOpen(curr, names) == curr < Len(names)

\* One iteration of the for loop, lines 143-173.
ScanIter ==
    /\ pc = "scan"
    /\ i < orig_len
    /\ \E a \in OracleAnswers :
         /\ OracleAllowed(a)
         /\ joined' = Append(joined, [tidx |-> a.tidx, textoff |-> a.textoff,
                                      tlen |-> a.tlen, ch |-> getValue(i)])
         /\ tlen' = a.tlen
         /\ IF Owned(a.tidx, a.textoff, a.tlen)
            THEN LET switch == NeedSwitch(curr_ref, a.tidx)
                     closes == switch /\ curr_ref # NoRef
                     seq0   == IF switch THEN <<>> ELSE curr_ref_seq
                     last0  == IF switch THEN 0 ELSE last_text_off
                 IN  IF closes /\ FastaHangs(ClosePad(curr_ref_seq, a.tlen), across)
                     THEN /\ fout' = fout \o HungOutput(refnames[curr_ref + 1])
                          /\ curr_ref_seq' = ClosePad(curr_ref_seq, a.tlen)
                          /\ pc' = "hung"
                          /\ UNCHANGED <<curr_ref, last_text_off, i>>
                     ELSE /\ fout' = IF closes
                                     THEN CloseRecord(fout, refnames, curr_ref,
                                                      curr_ref_seq, a.tlen, across)
                                     ELSE fout
                          /\ curr_ref' = IF switch THEN a.tidx ELSE curr_ref
                          /\ curr_ref_seq' =
                                 Append(GapFill(seq0, a.textoff, last0), getValue(i))
                          /\ last_text_off' = a.textoff
                          /\ i' = i + 1
                          /\ pc' = pc
            ELSE /\ i' = i + 1
                 /\ UNCHANGED <<fout, curr_ref, curr_ref_seq, last_text_off, pc>>
    /\ UNCHANGED <<names_only, across, refnames, plen, orig_len,
                   argv, optind, verbose, cerr, status, loaded>>

\* After the loop, lines 174-181, and the return to driver and main, which
\* returns 0 (line 268).
ScanFinish ==
    /\ pc = "scan"
    /\ i >= orig_len
    /\ IF FinalOpen(curr_ref, refnames)
       THEN /\ curr_ref_seq' = ClosePad(curr_ref_seq, tlen)
            /\ IF FastaHangs(ClosePad(curr_ref_seq, tlen), across)
               THEN /\ fout' = fout \o HungOutput(refnames[curr_ref + 1])
                    /\ pc' = "hung"
                    /\ status' = status
               ELSE /\ fout' = CloseRecord(fout, refnames, curr_ref,
                                           curr_ref_seq, tlen, across)
                    /\ pc' = "done"
                    /\ status' = 0
       ELSE /\ pc' = "done"
            /\ status' = 0
            /\ UNCHANGED <<curr_ref_seq, fout>>
    /\ UNCHANGED <<names_only, across, refnames, plen, orig_len, joined, i,
                   curr_ref, last_text_off, tlen,
                   argv, optind, verbose, cerr, loaded>>

----------------------------------------------------------------------------
(* print_index_sequence_names *)

\* p_refnames->size() - 1, computed in size_t
NamesBound(names) == IF Len(names) = 0 THEN SizeMax ELSE Len(names) - 1

\* One iteration of the loop, lines 191-195. An index at or past the end of
\* the vector is an out-of-bounds read: the process dies, or it prints
\* whatever it read and goes on.
NamesIter ==
    /\ pc = "names"
    /\ i < NamesBound(refnames)
    /\ IF i < Len(refnames)
       THEN /\ fout' = Append(fout, <<refnames[i + 1]>>)
            /\ i' = i + 1
            /\ pc' = pc
       ELSE \/ /\ pc' = "crashed"
               /\ UNCHANGED <<fout, i>>
            \/ /\ i < MaxOverrun
               /\ fout' = Append(fout, <<"?">>)
               /\ i' = i + 1
               /\ pc' = pc
    /\ UNCHANGED <<names_only, across, refnames, plen, orig_len, joined,
                   curr_ref, curr_ref_seq, last_text_off, tlen,
                   argv, optind, verbose, cerr, status, loaded>>

\* the loop ends; return to driver and main, which returns 0 (line 268)
NamesFinish ==
    /\ pc = "names"
    /\ i >= NamesBound(refnames)
    /\ pc' = "done"
    /\ status' = 0
    /\ UNCHANGED <<names_only, across, refnames, plen, orig_len, joined, i,
                   curr_ref, curr_ref_seq, last_text_off, tlen, fout,
                   argv, optind, verbose, cerr, loaded>>

----------------------------------------------------------------------------
(* driver *)

\* lines 213-216, with the initialisation of the function called
Driver ==
    /\ pc = "driver"
    /\ pc' = IF names_only THEN "names" ELSE "scan"
    /\ i' = 0
    /\ curr_ref' = NoRef
    /\ curr_ref_seq' = <<>>
    /\ last_text_off' = 0
    /\ tlen' = NoRef
    /\ loaded' = TRUE
    /\ UNCHANGED <<names_only, across, refnames, plen, orig_len, joined, fout,
                   argv, optind, verbose, cerr, status>>

\* declared lengths tried: an empty record, a one-character record and the
\* longest record
Lengths == {0, 1, MaxLen}

\* The process at the call of driver, run without -a, and the index as
\* loaded: up to MaxRefs records with their labels and lengths, and a joined
\* text of up to MaxJoined positions.
Init ==
    /\ names_only \in BOOLEAN
    /\ across = DefaultAcross
    /\ \E n \in 0..MaxRefs :
         /\ refnames = SubSeq(LabelPool, 1, n)
         /\ plen \in [1..n -> Lengths]
    /\ orig_len \in 0..MaxJoined
    /\ joined = <<>>
    /\ i = 0
    /\ curr_ref = NoRef
    /\ curr_ref_seq = <<>>
    /\ last_text_off = 0
    /\ tlen = NoRef
    /\ fout = <<>>
    /\ pc = "driver"
    /\ argv = <<>>
    /\ optind = 1
    /\ verbose = FALSE
    /\ cerr = <<>>
    /\ status = Running
    /\ loaded = FALSE

Next ==
    \/ Driver
    \/ ScanIter
    \/ ScanFinish
    \/ NamesIter
    \/ NamesFinish

Spec == Init /\ [][Next]_vars

\* The process is sequential and runs to its end.
FairSpec == Spec /\ WF_vars(Next)

----------------------------------------------------------------------------
(* print_fasta_record on its own *)

RECURSIVE SeqsUpTo(_)
SeqsUpTo(n) ==
    IF n = 0 THEN { <<>> }
    ELSE LET shorter == SeqsUpTo(n - 1)
         IN  shorter \cup { Append(s, c) : s \in { t \in shorter : Len(t) = n - 1 },
                                           c \in {"A", "C", "N"} }

FastaInit ==
    /\ names_only = FALSE
    /\ across \in 1..MaxAcross
    /\ refnames = <<"r0">>
    /\ plen = <<0>>
    /\ orig_len = 0
    /\ joined = <<>>
    /\ i = 0
    /\ curr_ref = 0
    /\ curr_ref_seq \in SeqsUpTo(MaxSeq)
    /\ last_text_off = 0
    /\ tlen = 0
    /\ fout = <<>>
    /\ pc = "fasta"
    /\ argv = <<>>
    /\ optind = 1
    /\ verbose = FALSE
    /\ cerr = <<>>
    /\ status = Running
    /\ loaded = FALSE

FastaCall ==
    /\ pc = "fasta"
    /\ fout' = print_fasta_record(fout, refnames[curr_ref + 1], curr_ref_seq, across)
    /\ pc' = "fasta_done"
    /\ UNCHANGED <<names_only, across, refnames, plen, orig_len, joined, i,
                   curr_ref, curr_ref_seq, last_text_off, tlen,
                   argv, optind, verbose, cerr, status, loaded>>

FastaNext == FastaCall

FastaSpec == FastaInit /\ [][FastaNext]_vars

----------------------------------------------------------------------------
(* parseInt, parseOptions, main *)

\* A long is written q * 2^32 + r with r in the range of int32_t, so that r
\* is what the conversion of the long to int32_t keeps.
Long(q, r) == [q |-> q, r |-> r]

\* the values strtol gives for the arguments of -a that are tried: -1, 0, 2,
\* 2^32, 2^32 - 1 and 1 - 2^32 (an argument without digits gives 0)
AcrossArgs ==
    { Long(0, -1), Long(0, 0), Long(0, 2), Long(1, 0), Long(1, -1), Long(-1, 1) }

\* The elements of a command line. "bad" is an element getopt_long answers
\* with '?': an option that is not known, or -a without its argument. "pos"
\* is a non-option element, which getopt_long moves behind the options.
Args ==
    { [opt |-> o, arg |-> Long(0, 0)] : o \in {"v", "n", "h", "bad", "pos"} }
    \cup { [opt |-> "a", arg |-> l] : l \in AcrossArgs }

RECURSIVE ArgvsUpTo(_)
ArgvsUpTo(n) ==
    IF n = 0 THEN { <<>> }
    ELSE LET shorter == ArgvsUpTo(n - 1)
         IN  shorter \cup { Append(t, a) : t \in { u \in shorter : Len(u) = n - 1 },
                                           a \in Args }

\* printUsage, lines 37-47
Usage ==
    << <<"Usage: bowtie-inspect [options]* <ebwt_base>">>,
       <<"  <ebwt_base>        ebwt filename minus trailing .1.ebwt/.2.ebwt">>,
       <<"Options:">>,
       <<"  -a/--across        number of characters across in FASTA output (default: 60)">>,
       <<"  -n/--names         Print reference sequence names only">>,
       <<"  -v/--verbose       verbose output (for debugging)">>,
       <<"  -h/--help          print detailed description of tool and its options">> >>

\* printLongUsage, lines 56-62
LongUsage == << <<>>, <<"LONG USAGE TODO">>, <<>> >>

\* the error message handed to parseInt, line 100
AcrossErrMsg == <<"-a/--across arg must be at least 1">>

\* the lines written when verbose is set, lines 256-265
VerboseLines ==
    << <<"Input ebwt file: ">>, <<"Output file: ">>,
       <<"Local endianness: ">>, <<"Assertions: ">> >>

ParseIntRejectsNegative(l, lower) == l.q < 0 \/ (l.q = 0 /\ l.r < 0)

\* if (l < lower), with endPtr never NULL after strtol (lines 73-74)
ParseIntRejects(l, lower) == l.q < 0 \/ (l.q = 0 /\ l.r < lower)

\* return (int32_t)l;
Narrow32(l) == l.r

\* the element getopt_long answers for next: the first option element at or
\* after optind, 0 when there is none (it then answers -1)
NextOpt(args, from) ==
    LET opts == { k \in from..Len(args) : args[k].opt # "pos" }
    IN  IF opts = {} THEN 0 ELSE CHOOSE k \in opts : \A k2 \in opts : k <= k2

MissingIndexNever(args) == FALSE

\* if (optind >= argc): no non-option element is left
MissingIndex(args) == \A k \in 1..Len(args) : args[k].opt # "pos"

\* One iteration of the loop of parseOptions, lines 93-110.
ParseOption ==
    /\ pc = "parse"
    /\ LET k == NextOpt(argv, optind)
       IN  IF k = 0
           THEN /\ pc' = "main"
                /\ UNCHANGED <<optind, fout, cerr, status, verbose,
                               names_only, across>>
           ELSE /\ optind' = k + 1
                /\ CASE argv[k].opt = "h" ->
                          /\ fout' = fout \o LongUsage
                          /\ status' = 0
                          /\ pc' = "exited"
                          /\ UNCHANGED <<cerr, verbose, names_only, across>>
                     [] argv[k].opt = "bad" ->
                          /\ cerr' = cerr \o Usage
                          /\ status' = 1
                          /\ pc' = "exited"
                          /\ UNCHANGED <<fout, verbose, names_only, across>>
                     [] argv[k].opt = "v" ->
                          /\ verbose' = TRUE
                          /\ UNCHANGED <<fout, cerr, status, pc, names_only, across>>
                     [] argv[k].opt = "n" ->
                          /\ names_only' = TRUE
                          /\ UNCHANGED <<fout, cerr, status, pc, verbose, across>>
                     [] argv[k].opt = "a" ->
                          IF ParseIntRejects(argv[k].arg, 1)
                          THEN /\ cerr' = cerr \o <<AcrossErrMsg>> \o Usage
                               /\ status' = 1
                               /\ pc' = "exited"
                               /\ UNCHANGED <<fout, verbose, names_only, across>>
                          ELSE /\ across' = Narrow32(argv[k].arg)
                               /\ UNCHANGED <<fout, cerr, status, pc, verbose,
                                              names_only>>
    /\ UNCHANGED <<refnames, plen, orig_len, joined, i, curr_ref, curr_ref_seq,
                   last_text_off, tlen, argv, loaded>>

\* main after parseOptions, lines 234-266 (showVersion is never set)
Main ==
    /\ pc = "main"
    /\ IF MissingIndex(argv)
       THEN /\ cerr' = cerr \o << <<"No index name given!">> >> \o Usage
            /\ status' = 1
            /\ pc' = "exited"
            /\ fout' = fout
       ELSE /\ fout' = IF verbose THEN fout \o VerboseLines ELSE fout
            /\ pc' = "driver"
            /\ UNCHANGED <<cerr, status>>
    /\ UNCHANGED <<names_only, across, refnames, plen, orig_len, joined, i,
                   curr_ref, curr_ref_seq, last_text_off, tlen,
                   argv, optind, verbose, loaded>>

\* The process at the call of main, with a command line of up to MaxArgs
\* elements, and the index it will load: two records of lengths MaxLen and 1
\* and a joined text of two positions.
CliInit ==
    /\ names_only = FALSE
    /\ across = DefaultAcross
    /\ verbose = FALSE
    /\ argv \in ArgvsUpTo(MaxArgs)
    /\ optind = 1
    /\ cerr = <<>>
    /\ status = Running
    /\ loaded = FALSE
    /\ refnames = SubSeq(LabelPool, 1, 2)
    /\ plen = <<MaxLen, 1>>
    /\ orig_len = 2
    /\ joined = <<>>
    /\ i = 0
    /\ curr_ref = NoRef
    /\ curr_ref_seq = <<>>
    /\ last_text_off = 0
    /\ tlen = NoRef
    /\ fout = <<>>
    /\ pc = "parse"

CliNext ==
    \/ ParseOption
    \/ Main
    \/ Driver
    \/ ScanIter
    \/ ScanFinish
    \/ NamesIter
    \/ NamesFinish

CliSpec == CliInit /\ [][CliNext]_vars

\* The process is sequential and runs to its end.
CliFairSpec == CliSpec /\ WF_vars(CliNext)

----------------------------------------------------------------------------
(* Reading the output back *)

NoDuplicates(s) == \A k, l \in 1..Len(s) : s[k] = s[l] => k = l

IsPrefix(s, t) == Len(s) <= Len(t) /\ s = SubSeq(t, 1, Len(s))

IsHeader(line) == Len(line) > 0 /\ line[1] = ">"

\* The records of a FASTA text: each header line opens a record, the lines
\* after it are joined into its sequence.
RECURSIVE ParseFasta(_)
ParseFasta(lines) ==
    IF lines = <<>> THEN <<>>
    ELSE LET prev == ParseFasta(SubSeq(lines, 1, Len(lines) - 1))
             last == lines[Len(lines)]
         IN  IF IsHeader(last)
             THEN Append(prev, [defline |-> last[2], seq |-> <<>>])
             ELSE [prev EXCEPT ![Len(prev)].seq = @ \o last]

Blocks == ParseFasta(fout)

RefOf(defline) == CHOOSE r \in 0..(NumRefs - 1) : refnames[r + 1] = defline

EmittedIds == [k \in 1..Len(Blocks) |-> RefOf(Blocks[k].defline)]

\* position q of the joined sequence is owned, by the Records collection
EntryOwned(q) ==
    /\ joined[q].tidx # NoRef
    /\ joined[q].textoff < plen[joined[q].tidx + 1]

OwnedPositions == { q \in 1..Len(joined) : EntryOwned(q) }

PositionsOf(r) == { q \in OwnedPositions : joined[q].tidx = r }

\* every record's owned positions form one run of the owned positions
ContiguousRuns ==
    \A p, q, r \in OwnedPositions :
        (p < q /\ q < r /\ joined[p].tidx = joined[r].tidx)
            => joined[q].tidx = joined[p].tidx

RECURSIVE FirstOccurrences(_)
FirstOccurrences(s) ==
    IF s = <<>> THEN <<>>
    ELSE LET prev == FirstOccurrences(SubSeq(s, 1, Len(s) - 1))
             x    == s[Len(s)]
         IN  IF \E k \in 1..Len(prev) : prev[k] = x THEN prev ELSE Append(prev, x)

\* record ids in the order of their first owned position
FirstOwnedOrder ==
    FirstOccurrences([q \in 1..Len(joined) |->
                        IF EntryOwned(q) THEN joined[q].tidx ELSE NoRef])

OwnedOrder == SelectSeq(FirstOwnedOrder, LAMBDA r : r # NoRef)

PadTo(seq, n) == IF Len(seq) < n THEN seq \o Ns(n - Len(seq)) ELSE seq

RECURSIVE Concat(_)
Concat(lines) ==
    IF lines = <<>> THEN <<>> ELSE lines[1] \o Concat(Tail(lines))

----------------------------------------------------------------------------
(* Claims *)

\* C1: every record emitted by the reconstruction scan has an assembled
\* sequence whose length equals that record's declared total length.
C1_LengthInvariant ==
    (~names_only) =>
        \A k \in 1..Len(Blocks) :
            Len(Blocks[k].seq) = plen[RefOf(Blocks[k].defline) + 1]

\* C2: when two consecutive owned positions of the same record have offsets
\* a < b, exactly b - a - 1 gap characters lie between their two real
\* characters in the accumulated sequence, also for a = 0.
C2_MidRecordGapCount ==
    (pc = "scan" /\ i >= 2 /\ EntryOwned(i)) =>
        LET before == { q \in OwnedPositions : q < i }
        IN  before # {} =>
              LET j == CHOOSE q \in before : \A q2 \in before : q2 <= q
                  a == joined[j].textoff
                  b == joined[i].textoff
              IN  (joined[j].tidx = joined[i].tidx /\ a < b) =>
                    /\ Len(curr_ref_seq) >= b - a + 1
                    /\ SubSeq(curr_ref_seq, Len(curr_ref_seq) - (b - a),
                              Len(curr_ref_seq))
                         = <<joined[j].ch>> \o Ns(b - a - 1) \o <<joined[i].ch>>

\* C3: the emitted sequence of a record of declared length L whose owned
\* offsets in the scan are S holds, at each offset of S, the character of the
\* position that maps to it, and the gap character N at every other index of
\* [0, L).
C3_GapCorrectness ==
    (pc = "done" /\ ~names_only /\ ContiguousRuns) =>
        \A k \in 1..Len(Blocks) :
            LET r == RefOf(Blocks[k].defline)
                L == plen[r + 1]
                s == Blocks[k].seq
            IN  /\ Len(s) = L
                /\ \A o \in 0..(L - 1) :
                     IF o \in { joined[q].textoff : q \in PositionsOf(r) }
                     THEN \E q \in PositionsOf(r) :
                            joined[q].textoff = o /\ s[o + 1] = joined[q].ch
                     ELSE s[o + 1] = "N"

\* C4: whenever the current record is closed, what is written is its
\* accumulated sequence padded with gap characters up to the declared length
\* of the record being closed.
C4_ClosePadsToOwnLength ==
    [][(pc = "scan" /\ fout' # fout) =>
          fout' = print_fasta_record(fout, refnames[curr_ref + 1],
                      PadTo(curr_ref_seq, plen[curr_ref + 1]), across)]_vars

\* C5: in name-only mode the output is the label of every entry of the
\* Records collection, one per line, in the collection's order.
C5_NameOnlyCompleteness ==
    (names_only /\ pc = "done") =>
        fout = [k \in 1..NumRefs |-> <<refnames[k]>>]

\* C6: records are first emitted in the order in which their first owned
\* position appears in the joined sequence.
C6_OrderInvariant ==
    (~names_only) => IsPrefix(FirstOccurrences(EmittedIds), OwnedOrder)

C6_Witness ==
    /\ pc = "done"
    /\ ~names_only
    /\ Len(FirstOccurrences(EmittedIds)) >= 2

\* C7 as stated: for any sequence of oracle answers, an emitted record is
\* never the current record again and no record identity is emitted twice.
C7_NoReopening ==
    (~names_only) =>
        /\ NoDuplicates(EmittedIds)
        /\ pc = "scan" => \A k \in 1..Len(EmittedIds) : EmittedIds[k] # curr_ref

\* C7 as amended: when every record's owned positions form one run, an
\* emitted record is never the current record again and no record identity
\* is emitted twice.
C7_NoReopeningOfContiguousRecords ==
    (~names_only /\ ContiguousRuns) =>
        /\ NoDuplicates(EmittedIds)
        /\ pc = "scan" => \A k \in 1..Len(EmittedIds) : EmittedIds[k] # curr_ref

C7_Witness ==
    /\ pc = "scan"
    /\ ~names_only
    /\ ContiguousRuns
    /\ Len(EmittedIds) >= 1
    /\ Cardinality(PositionsOf(curr_ref)) >= 2

\* C8: the scan visits every joined position and terminates, and at
\* termination every record that had an owned position has been emitted.
C8_EveryOpenedRecordEmitted ==
    (~names_only) =>
        <>(/\ pc = "done"
           /\ Len(joined) = orig_len
           /\ \A q \in OwnedPositions :
                \E k \in 1..Len(EmittedIds) : EmittedIds[k] = joined[q].tidx)

C8_Witness ==
    /\ pc = "done"
    /\ ~names_only
    /\ orig_len >= 2
    /\ EntryOwned(orig_len)
    /\ Len(EmittedIds) >= 1
    /\ EmittedIds[Len(EmittedIds)] = joined[orig_len].tidx

\* C9: a record of declared length 0, or one never reported as owned, is
\* never emitted; without an owned position nothing is emitted.
C9_AbsentRecordsNeverYielded ==
    (~names_only) =>
        \A k \in 1..Len(Blocks) :
            LET r == RefOf(Blocks[k].defline)
            IN  plen[r + 1] > 0 /\ PositionsOf(r) # {}

C9_Witness ==
    /\ pc = "done"
    /\ ~names_only
    /\ fout # <<>>
    /\ \E r \in 0..(NumRefs - 1) :
         /\ plen[r + 1] = 0
         /\ \E q \in 1..Len(joined) : joined[q].tidx = r

\* C10: for a wrap width W >= 1, print_fasta_record writes the header line
\* and then lines whose concatenation is the sequence; every line but the
\* last has length W, the last has length 1..W, and no line is empty.
C10_WrapRoundTrip ==
    (pc = "fasta_done" /\ across >= 1) =>
        /\ Len(fout) >= 1
        /\ fout[1] = <<">", refnames[curr_ref + 1]>>
        /\ LET lines == Tail(fout)
           IN  /\ Concat(lines) = curr_ref_seq
               /\ \A k \in 1..Len(lines) :
                    /\ Len(lines[k]) >= 1
                    /\ Len(lines[k]) <= across
                    /\ k < Len(lines) => Len(lines[k]) = across

C10_Witness ==
    /\ pc = "fasta_done"
    /\ Len(fout) >= 3
    /\ Len(fout[Len(fout)]) < across

C14_PartialRecordsNeverExposed ==
    [][(pc = "scan" /\ ~names_only) =>
          \/ fout' = fout
          \/ /\ curr_ref # NoRef
             /\ pc' = "done" \/ curr_ref' # curr_ref
             /\ IsPrefix(fout, fout')
             /\ LET new == SubSeq(fout', Len(fout) + 1, Len(fout'))
                    s   == Concat(Tail(new))
                IN  /\ new[1] = <<">", refnames[curr_ref + 1]>>
                    /\ \A k \in 2..Len(new) : ~IsHeader(new[k])
                    /\ IsPrefix(curr_ref_seq, s)
                    /\ \A k \in (Len(curr_ref_seq) + 1)..Len(s) : s[k] = "N"]_vars

C14_Witness ==
    /\ pc = "scan"
    /\ ~names_only
    /\ Len(Blocks) >= 1
    /\ Len(curr_ref_seq) >= 2
    /\ \A k \in 1..Len(EmittedIds) : EmittedIds[k] # curr_ref

\* C15: when the first owned offset seen for a record is k, exactly k gap
\* characters precede that record's first real character.
C15_LeadingGapCount ==
    (pc = "scan" /\ ~names_only /\ i >= 1 /\ EntryOwned(i)) =>
        LET before == { q \in OwnedPositions : q < i }
            first  == \/ before = {}
                      \/ LET j == CHOOSE q \in before : \A q2 \in before : q2 <= q
                         IN  joined[j].tidx # joined[i].tidx
        IN  first => curr_ref_seq = Ns(joined[i].textoff) \o <<joined[i].ch>>

\* C16: a step on an unowned position changes nothing of the scan and writes
\* nothing, and the record open at the end of the scan is written as it
\* would be without the unowned positions, that is padded to the length
\* reported for the last owned position.
C16_UnownedPositionsHaveNoEffect ==
    [][(pc = "scan" /\ ~names_only) =>
          /\ (i' = i + 1 /\ LET e == joined'[i + 1]
                             IN  e.tidx = NoRef \/ e.textoff >= e.tlen) =>
                UNCHANGED <<curr_ref, curr_ref_seq, last_text_off, fout>>
          /\ (pc' = "done" /\ OwnedPositions # {}) =>
                LET j == CHOOSE q \in OwnedPositions :
                             \A q2 \in OwnedPositions : q2 <= q
                IN  fout' = print_fasta_record(fout, refnames[curr_ref + 1],
                                PadTo(curr_ref_seq, joined[j].tlen), across)]_vars

\* C18: for every size of the Records collection the name-only listing does
\* not die, writes at most as many lines as the collection has entries, and
\* reads no index at or past the end of the collection.
C18_NameOnlyBounds ==
    names_only =>
        /\ pc # "crashed"
        /\ Len(fout) <= NumRefs
        /\ (pc = "names" /\ i < NamesBound(refnames)) => i < NumRefs

----------------------------------------------------------------------------
(* Claims on the command line *)

\* the value of an argument of -a is 0 or negative
InvalidWidth(l) == l.q < 0 \/ (l.q = 0 /\ l.r < 1)

IsInvalidAcross(a) == a.opt = "a" /\ InvalidWidth(a.arg)

\* the first element of the command line that ends the run: -h, an option
\* that is not recognised, or -a with an invalid width; 0 when there is none
FirstDecisive ==
    LET ds == { k \in 1..Len(argv) :
                  argv[k].opt \in {"h", "bad"} \/ IsInvalidAcross(argv[k]) }
    IN  IF ds = {} THEN 0 ELSE CHOOSE k \in ds : \A k2 \in ds : k <= k2

\* the command line has no non-option element
NoIndexArgument == ~\E k \in 1..Len(argv) : argv[k].opt = "pos"

\* no record and no label has been written
NoBlockWritten == fout = <<>> \/ fout = LongUsage

\* C11 as stated: whenever some -a argument of the command line is 0 or
\* negative, the index is never loaded and no block is written, and the
\* process ends with the error message and the usage on the error stream and
\* a non-zero status.
C11_InvalidWidthRejected ==
    (\E k \in 1..Len(argv) : IsInvalidAcross(argv[k])) =>
        /\ ~loaded
        /\ fout = <<>>
        /\ pc \in {"parse", "exited"}
        /\ pc = "exited" =>
             (status = 1 /\ cerr = <<AcrossErrMsg>> \o Usage)

\* C11 as amended: the same, for a -a argument of 0 or less that option
\* parsing reaches, that is with no -h and no unrecognised option before it.
C11_InvalidWidthReachedRejected ==
    (FirstDecisive # 0 /\ IsInvalidAcross(argv[FirstDecisive])) =>
        /\ ~loaded
        /\ fout = <<>>
        /\ pc \in {"parse", "exited"}
        /\ pc = "exited" =>
             (status = 1 /\ cerr = <<AcrossErrMsg>> \o Usage)

C11_Witness ==
    /\ pc = "exited"
    /\ status = 1
    /\ Len(argv) = 3
    /\ argv[1].opt = "pos"
    /\ argv[2].opt = "a" /\ ~InvalidWidth(argv[2].arg)
    /\ IsInvalidAcross(argv[3])
    /\ argv[3].arg.q < 0

\* C12 as stated: a missing index argument, an invalid width or an
\* unrecognised option always ends the process with a non-zero status, and -h
\* always ends it with status zero, in both cases before the index is loaded
\* and before a record or label is written.
C12_UsageErrorsAndHelpFirst ==
    LET usageError == \/ NoIndexArgument
                      \/ \E k \in 1..Len(argv) :
                           argv[k].opt = "bad" \/ IsInvalidAcross(argv[k])
        help == \E k \in 1..Len(argv) : argv[k].opt = "h"
    IN  /\ (usageError \/ help) =>
              (~loaded /\ NoBlockWritten /\ pc \in {"parse", "main", "exited"})
        /\ (usageError /\ pc = "exited") => status = 1
        /\ (help /\ pc = "exited") => status = 0

\* C12 as amended: options are handled in command-line order and the first of
\* -h, an unrecognised option and an invalid width ends the process, with
\* status zero for -h and non-zero otherwise; a missing index argument ends it
\* with a non-zero status when none of these is on the command line. In all
\* these cases the process ends, before the index is loaded and before a
\* record or label is written.
C12_FirstUsageErrorOrHelpDecides ==
    LET d == FirstDecisive
        expected == IF d # 0 /\ argv[d].opt = "h" THEN 0 ELSE 1
    IN  (d # 0 \/ NoIndexArgument) =>
          /\ [](~loaded /\ NoBlockWritten /\ pc \in {"parse", "main", "exited"})
          /\ [](pc = "exited" => status = expected)
          /\ <>(pc = "exited")

C12_Witness ==
    /\ pc = "exited"
    /\ status = 0
    /\ Len(argv) = 3
    /\ argv[1].opt = "n"
    /\ argv[2].opt = "h"
    /\ argv[3].opt = "bad"

\* C17: after parseInt has accepted the argument of -a, the stored width is
\* the value parsed and at least 1, and no call of print_fasta_record runs
\* for ever.
C17_WidthStaysAtLeastOne ==
    LET as == { k \in 1..Len(argv) : argv[k].opt = "a" }
    IN  /\ (as # {} /\ pc \notin {"parse", "exited"}) =>
              LET k == CHOOSE k1 \in as : \A k2 \in as : k2 <= k1
              IN  /\ argv[k].arg.q = 0
                  /\ across = argv[k].arg.r
                  /\ across >= 1
        /\ pc # "hung"

====
